---- MODULE Spec2Model ----
(***************************************************************************)
(* A model of redis-om-node's schema-driven converters (entity data <->    *)
(* hash / JSON storage records), of the fluent Search builder, of the      *)
(* field accessors that a Schema defines on its Entity, of the index       *)
(* schema builder and of the paging of Search.all.                         *)
(*                                                                         *)
(* JavaScript strings are sequences of one-character strings, so that      *)
(* toString, parseFloat, parseInt, join and split are computed character   *)
(* by character.  A number is a record [k, m, e]: k = "fin" denotes the    *)
(* decimal m / 10^e (normalised: e = 0 or m not divisible by 10), and      *)
(* k = "nan", "inf", "ninf" denote NaN, +Infinity, -Infinity.              *)
(***************************************************************************)
EXTENDS Integers, Sequences, FiniteSets, TLC

VARIABLES
  pc,          \* converters: "entity", "hash", "json", "returned" or "thrown"
  source,      \* converters: "entity" (record produced by encode) or "store"
  enc,         \* converters: encoding of the record, "none", "hash" or "json"
  entityData,  \* converters: the Entity Data given to encode
  hashData,    \* converters: the flat storage record
  jsonData,    \* converters: the structured storage record
  decoded,     \* converters: the Entity Data returned by decode
  err,         \* converters: the error thrown by decode, or NoError
  dataStructure, \* search: the schema's data structure, "HASH" or "JSON"
  rootWhere,   \* search: Search.rootWhere, a tree of Where nodes or undefined
  leaves,      \* search: the WhereField objects created so far, by identity
  calls,       \* search: history of the where/and/or calls that returned
  ret,         \* search: what the last call returned, threw or read
  access,      \* accessors: the last get or set on the entity, and its outcome
  definition,  \* index: Schema.definition, the fields in declaration order
  redisSchema, \* index: what SchemaBuilder.redisSchema returned
  indexPc,     \* index: "idle", "schema" (a schema is given) or "built"
  matches,     \* paging: the entities that the backend holds for the query
  pageSize,    \* paging: options.pageSize
  offset,      \* paging: the local offset of all
  entities,    \* paging: the local entities of all
  found,       \* paging: the local foundEntities of all
  allPc        \* paging: where all is: "idle", "loop", "await" or "done"

convVars == <<pc, source, enc, entityData, hashData, jsonData, decoded, err>>

searchVars == <<dataStructure, rootWhere, leaves, calls, ret>>

accessVars == <<access>>

indexVars == <<definition, redisSchema, indexPc>>

pageVars == <<matches, pageSize, offset, entities, found, allPc>>

restVars == <<accessVars, indexVars, pageVars>>

vars == <<convVars, searchVars, restVars>>

----------------------------------------------------------------------------
(* Bounds of the model.                                                    *)

\* Longest raw string read from the store.
MaxLen == 3

\* Longest string array held by an entity.
MaxArr == 2

\* Most where/and/or calls that return, on one Search.
MaxCalls == 3

\* Most where/and/or steps of one sub-search function.
MaxSteps == 2

----------------------------------------------------------------------------
(* Strings and numbers.                                                    *)

DigitChars == <<"0", "1", "2", "3", "4", "5", "6", "7", "8", "9">>

IsDigit(c) == \E i \in 1..10 : DigitChars[i] = c

DigitVal(c) == (CHOOSE i \in 1..10 : DigitChars[i] = c) - 1

RECURSIVE Pow10(_)
Pow10(e) == IF e = 0 THEN 1 ELSE 10 * Pow10(e - 1)

Abs(i) == IF i < 0 THEN 0 - i ELSE i

NaN == [k |-> "nan", m |-> 0, e |-> 0]
Infinity == [k |-> "inf", m |-> 1, e |-> 0]
NegInfinity == [k |-> "ninf", m |-> -1, e |-> 0]
\* The value of a missing array element (destructuring past the end).
UndefinedNumber == [k |-> "undefined", m |-> 0, e |-> 0]

RECURSIVE Normalize(_, _)
Normalize(m, e) ==
  IF e > 0 /\ m % 10 = 0 THEN Normalize(m \div 10, e - 1)
  ELSE [k |-> "fin", m |-> m, e |-> e]

Int2Num(i) == [k |-> "fin", m |-> i, e |-> 0]

IsFinite(n) == n.k = "fin"

IsNaN(n) == n.k = "nan"

RECURSIVE NatToString(_)
NatToString(n) ==
  IF n < 10 THEN <<DigitChars[n + 1]>>
  ELSE NatToString(n \div 10) \o <<DigitChars[(n % 10) + 1]>>

RECURSIVE FracToString(_, _)
FracToString(fr, e) ==
  IF e = 0 THEN <<>>
  ELSE FracToString(fr \div 10, e - 1) \o <<DigitChars[(fr % 10) + 1]>>

\* Number.prototype.toString.  Every finite number of the model lies in
\* [1e-6, 1e21), where JavaScript prints plain decimal notation.
numberToString(n) ==
  CASE n.k = "nan" -> <<"N", "a", "N">>
    [] n.k = "inf" -> <<"I", "n", "f", "i", "n", "i", "t", "y">>
    [] n.k = "ninf" -> <<"-", "I", "n", "f", "i", "n", "i", "t", "y">>
    [] n.k = "undefined" -> <<"u", "n", "d", "e", "f", "i", "n", "e", "d">>
    [] OTHER ->
         LET a == Abs(n.m)
             ip == a \div Pow10(n.e)
             fr == a % Pow10(n.e)
         IN (IF n.m < 0 THEN <<"-">> ELSE <<>>)
            \o NatToString(ip)
            \o (IF n.e > 0 THEN <<".">> \o FracToString(fr, n.e) ELSE <<>>)

Drop(s, n) == SubSeq(s, n + 1, Len(s))

StartsWith(s, p) == Len(s) >= Len(p) /\ SubSeq(s, 1, Len(p)) = p

RECURSIVE TrimStart(_)
TrimStart(s) ==
  IF Len(s) > 0 /\ s[1] = " " THEN TrimStart(Tail(s)) ELSE s

RECURSIVE DigitPrefix(_)
DigitPrefix(s) ==
  IF Len(s) > 0 /\ IsDigit(s[1]) THEN <<s[1]>> \o DigitPrefix(Tail(s)) ELSE <<>>

RECURSIVE DigitsVal(_)
DigitsVal(d) ==
  IF Len(d) = 0 THEN 0
  ELSE 10 * DigitsVal(SubSeq(d, 1, Len(d) - 1)) + DigitVal(d[Len(d)])

\* Number.parseFloat: leading white space, an optional sign, then the longest
\* prefix that is "Infinity" or a decimal literal; NaN when there is none.
\* The strings of the model hold no exponent marker.
parseFloat(s) ==
  LET t == TrimStart(s)
      neg == Len(t) > 0 /\ t[1] = "-"
      signed == Len(t) > 0 /\ t[1] \in {"+", "-"}
      u == IF signed THEN Tail(t) ELSE t
      d1 == DigitPrefix(u)
      r1 == Drop(u, Len(d1))
      hasDot == Len(r1) > 0 /\ r1[1] = "."
      d2 == IF hasDot THEN DigitPrefix(Tail(r1)) ELSE <<>>
      mag == DigitsVal(d1 \o d2)
  IN IF StartsWith(u, <<"I", "n", "f", "i", "n", "i", "t", "y">>)
     THEN (IF neg THEN NegInfinity ELSE Infinity)
     ELSE IF Len(d1) = 0 /\ Len(d2) = 0 THEN NaN
     ELSE Normalize(IF neg THEN 0 - mag ELSE mag, Len(d2))

\* Number.parseInt with no radix: leading white space, an optional sign, then
\* the longest prefix of decimal digits; NaN when there is none.  The strings
\* of the model hold no "x", so the hexadecimal prefix never applies.
parseInt(s) ==
  LET t == TrimStart(s)
      neg == Len(t) > 0 /\ t[1] = "-"
      signed == Len(t) > 0 /\ t[1] \in {"+", "-"}
      u == IF signed THEN Tail(t) ELSE t
      d == DigitPrefix(u)
  IN IF Len(d) = 0 THEN NaN
     ELSE Int2Num(IF neg THEN 0 - DigitsVal(d) ELSE DigitsVal(d))

\* Array.prototype.join on strings.
RECURSIVE Join(_, _)
Join(arr, sep) ==
  IF Len(arr) = 0 THEN <<>>
  ELSE IF Len(arr) = 1 THEN arr[1]
  ELSE arr[1] \o sep \o Join(Tail(arr), sep)

RECURSIVE SplitFrom(_, _, _, _)
SplitFrom(s, sep, i, cur) ==
  IF i > Len(s) THEN <<cur>>
  ELSE IF i + Len(sep) - 1 <= Len(s) /\ SubSeq(s, i, i + Len(sep) - 1) = sep
       THEN <<cur>> \o SplitFrom(s, sep, i + Len(sep), <<>>)
       ELSE SplitFrom(s, sep, i + 1, Append(cur, s[i]))

\* String.prototype.split with a string separator.
Split(s, sep) ==
  IF Len(sep) = 0 THEN [i \in 1..Len(s) |-> <<s[i]>>]
  ELSE SplitFrom(s, sep, 1, <<>>)

----------------------------------------------------------------------------
(* The schema.  A field definition is a record with a type and, where the  *)
(* schema sets them, an alias and a separator.                             *)

FieldNames ==
  <<"aString", "aNumber", "aBoolean", "someText", "aPoint", "aDate",
    "someStrings", "otherStrings", "anObject", "anotherString">>

SchemaDef ==
  [f \in {FieldNames[i] : i \in 1..Len(FieldNames)} |->
     CASE f = "aString" -> [type |-> "string"]
       [] f = "aNumber" -> [type |-> "number"]
       [] f = "aBoolean" -> [type |-> "boolean"]
       [] f = "someText" -> [type |-> "text"]
       [] f = "aPoint" -> [type |-> "point"]
       [] f = "aDate" -> [type |-> "date"]
       [] f = "someStrings" -> [type |-> "string[]"]
       [] f = "otherStrings" -> [type |-> "string[]", separator |-> <<",">>]
       [] f = "anObject" -> [type |-> "object"]
       [] OTHER -> [type |-> "string", alias |-> "aliasedString"]]

SchemaFields == DOMAIN SchemaDef

\* A key that no schema field has.
ExtraKey == "extra"

AllKeys == SchemaFields \cup {ExtraKey}

FieldType(f) == SchemaDef[f].type

\* fieldDef.separator ?? '|'
Separator(fieldDef) ==
  IF "separator" \in DOMAIN fieldDef THEN fieldDef.separator ELSE <<"|">>

----------------------------------------------------------------------------
(* The per-type converters.                                                *)

Ok(v) == [ok |-> TRUE, value |-> v]

Throw(e) == [ok |-> FALSE, error |-> e]

NoError == [template |-> "none"]

\* TypeError: a method called on null.
TypeError == [template |-> "TypeError: Cannot read properties of null"]

\* The null of a structured record, and a present value.
JsonNull == [t |-> "null"]

JsonValue(v) == [t |-> "value", v |-> v]

IsNull(jv) == jv.t = "null"

\* The null an Entity Data would hold if a converter passed it through.
NullValue == [null |-> TRUE]

\* A date instant: its time value, NaN for an invalid date.
DateOf(time) == [time |-> time]

\* Date.prototype.setTime: NaN unless finite, else truncated to an integer.
\* The range limit of 8.64e15 ms is beyond the numbers of the model.
setTime(n) ==
  IF n.k = "undefined" \/ ~IsFinite(n) THEN DateOf(NaN)
  ELSE DateOf(Int2Num((IF n.m < 0 THEN -1 ELSE 1) * (Abs(n.m) \div Pow10(n.e))))

pointToString(value) ==
  numberToString(value.longitude) \o <<",">> \o numberToString(value.latitude)

dateToString(value) == numberToString(value.time)

dateToNumber(value) == value.time

stringArrayToString(value, fieldDef) == Join(value, Separator(fieldDef))

stringToNumber(value) ==
  LET number == parseFloat(value)
  IN IF ~IsNaN(number) THEN Ok(number)
     ELSE Throw([template |->
                   "Non-numeric value of '${value}' read from Redis for number field.",
                 value |-> value])

stringToBoolean(value) ==
  IF value = <<"0">> THEN Ok(FALSE)
  ELSE IF value = <<"1">> THEN Ok(TRUE)
  ELSE Throw([template |->
                "Non-boolean value of '${value}' read from Redis for boolean field.",
              value |-> value])

\* stringToPoint reading the latitude first (mutant).
stringToPointLatitudeFirst(value) ==
  LET parts == Split(value, <<",">>)
      nums == [i \in 1..Len(parts) |-> parseFloat(parts[i])]
  IN Ok([latitude |-> IF Len(nums) >= 1 THEN nums[1] ELSE UndefinedNumber,
         longitude |-> IF Len(nums) >= 2 THEN nums[2] ELSE UndefinedNumber])

stringToPoint(value) ==
  LET parts == Split(value, <<",">>)
      nums == [i \in 1..Len(parts) |-> parseFloat(parts[i])]
  IN Ok([longitude |-> IF Len(nums) >= 1 THEN nums[1] ELSE UndefinedNumber,
         latitude |-> IF Len(nums) >= 2 THEN nums[2] ELSE UndefinedNumber])

stringToDate(value) ==
  LET parsed == parseInt(value)
  IN IF IsNaN(parsed)
     THEN Throw([template |->
                   "Non-numeric value of '${value}' read from Redis for date field.",
                 value |-> value])
     ELSE Ok(setTime(parsed))

\* stringToStringArray splitting on '|' whatever the field's separator (mutant).
stringToStringArrayOnDefault(value, fieldDef) == Ok(Split(value, <<"|">>))

stringToStringArray(value, fieldDef) == Ok(Split(value, Separator(fieldDef)))

numberToDate(value) == setTime(value)

toHashConverters(fieldType, value, fieldDef) ==
  CASE fieldType = "number" -> numberToString(value)
    [] fieldType = "boolean" -> (IF value THEN <<"1">> ELSE <<"0">>)
    [] fieldType = "string" -> value
    [] fieldType = "text" -> value
    [] fieldType = "point" -> pointToString(value)
    [] fieldType = "date" -> dateToString(value)
    [] fieldType = "string[]" -> stringArrayToString(value, fieldDef)
    [] fieldType = "object" -> value

fromHashConverters(fieldType, value, fieldDef) ==
  CASE fieldType = "number" -> stringToNumber(value)
    [] fieldType = "boolean" -> stringToBoolean(value)
    [] fieldType = "string" -> Ok(value)
    [] fieldType = "text" -> Ok(value)
    [] fieldType = "point" -> stringToPoint(value)
    [] fieldType = "date" -> stringToDate(value)
    [] fieldType = "string[]" -> stringToStringArray(value, fieldDef)
    [] fieldType = "object" -> Ok(value)

toJsonConverters(fieldType, value) ==
  CASE fieldType = "point" -> pointToString(value)
    [] fieldType = "date" -> dateToNumber(value)
    [] OTHER -> value

\* Called by the converter on values that are not null; on null, JavaScript
\* passes it through, fails to call split on it, or reads it as the number 0.
fromJsonConverters(fieldType, jv) ==
  CASE fieldType = "point" ->
         (IF IsNull(jv) THEN Throw(TypeError) ELSE stringToPoint(jv.v))
    [] fieldType = "date" ->
         (IF IsNull(jv) THEN Ok(numberToDate(Int2Num(0))) ELSE Ok(numberToDate(jv.v)))
    [] OTHER -> (IF IsNull(jv) THEN Ok(NullValue) ELSE Ok(jv.v))

----------------------------------------------------------------------------
(* The converters.  A record is a function from its keys to their values;  *)
(* a key that a JavaScript object does not have reads as undefined.        *)

EmptyObject == <<>>

Put(obj, key, value) == (key :> value) @@ obj

RECURSIVE HashEncodeFrom(_, _, _)
HashEncodeFrom(i, data, out) ==
  IF i > Len(FieldNames) THEN out
  ELSE LET fieldName == FieldNames[i]
           fieldDef == SchemaDef[fieldName]
       IN IF fieldName \in DOMAIN data
          THEN HashEncodeFrom(i + 1, data,
                 Put(out, fieldName,
                     toHashConverters(fieldDef.type, data[fieldName], fieldDef)))
          ELSE HashEncodeFrom(i + 1, data, out)

\* HashConverter.toHashData
toHashData(data) == HashEncodeFrom(1, data, EmptyObject)

RECURSIVE HashDecodeFrom(_, _, _)
HashDecodeFrom(i, data, out) ==
  IF i > Len(FieldNames) THEN Ok(out)
  ELSE LET fieldName == FieldNames[i]
           fieldDef == SchemaDef[fieldName]
       IN IF fieldName \in DOMAIN data
          THEN LET r == fromHashConverters(fieldDef.type, data[fieldName], fieldDef)
               IN IF r.ok THEN HashDecodeFrom(i + 1, data, Put(out, fieldName, r.value))
                  ELSE r
          ELSE HashDecodeFrom(i + 1, data, out)

\* HashConverter.toEntityData filling a copy of the record (mutant).
hashToEntityDataInPlace(data) == HashDecodeFrom(1, data, data)

\* HashConverter.toEntityData
hashToEntityData(data) == HashDecodeFrom(1, data, EmptyObject)

RECURSIVE JsonEncodeFrom(_, _, _)
JsonEncodeFrom(i, data, out) ==
  IF i > Len(FieldNames) THEN out
  ELSE LET fieldName == FieldNames[i]
           fieldDef == SchemaDef[fieldName]
       IN IF fieldName \in DOMAIN data
          THEN JsonEncodeFrom(i + 1, data,
                 Put(out, fieldName,
                     JsonValue(toJsonConverters(fieldDef.type, data[fieldName]))))
          ELSE JsonEncodeFrom(i + 1, data, out)

\* JsonConverter.toJsonData
toJsonData(data) == [t |-> "object", fields |-> JsonEncodeFrom(1, data, EmptyObject)]

\* jsonValue !== undefined, without the test for null (mutant).
JsonHasValueUnlessUndefined(fields, fieldName) == fieldName \in DOMAIN fields

\* jsonValue !== undefined && jsonValue !== null
JsonHasValue(fields, fieldName) ==
  fieldName \in DOMAIN fields /\ ~IsNull(fields[fieldName])

RECURSIVE JsonDecodeFrom(_, _, _)
JsonDecodeFrom(i, fields, out) ==
  IF i > Len(FieldNames) THEN Ok(out)
  ELSE LET fieldName == FieldNames[i]
           fieldDef == SchemaDef[fieldName]
       IN IF JsonHasValue(fields, fieldName)
          THEN LET r == fromJsonConverters(fieldDef.type, fields[fieldName])
               IN IF r.ok THEN JsonDecodeFrom(i + 1, fields, Put(out, fieldName, r.value))
                  ELSE r
          ELSE JsonDecodeFrom(i + 1, fields, out)

\* JsonConverter.toEntityData
jsonToEntityData(data) ==
  IF data.t = "null" THEN Ok(EmptyObject)
  ELSE JsonDecodeFrom(1, data.fields, EmptyObject)

----------------------------------------------------------------------------
(* The inputs: the Entity Data handed to encode and the records read from  *)
(* the store.                                                              *)

Dec(m, e) == Normalize(m, e)

\* Values of a number field.  The accessor stores any typeof 'number'.
NumberValues ==
  {Int2Num(0), Int2Num(1), Int2Num(-1), Int2Num(42), Int2Num(100),
   Dec(15, 1), Dec(-25, 2), NaN, Infinity, NegInfinity}

StringValues ==
  {<<>>, <<"a">>, <<"f", "o", "o">>, <<"a", "|", "b">>, <<"1">>, <<"0">>}

Coordinates == {Int2Num(0), Dec(15, 1), Dec(-12227, 2), Dec(378, 1), NaN}

PointValues == [longitude : Coordinates, latitude : Coordinates]

\* Date instants; DateOf(NaN) is the invalid date.
DateValues ==
  {DateOf(Int2Num(0)), DateOf(Int2Num(1)), DateOf(Int2Num(-1)),
   DateOf(Int2Num(86400000)), DateOf(NaN)}

ElemStrings ==
  {<<>>, <<"a">>, <<"|">>, <<",">>, <<"a", "|">>, <<"|", "a">>, <<"a", ",", "a">>}

RECURSIVE ArraysUpTo(_)
ArraysUpTo(n) ==
  IF n = 0 THEN {<<>>}
  ELSE LET prev == ArraysUpTo(n - 1)
       IN prev \cup {Append(a, x) : a \in prev, x \in ElemStrings}

ArrayValues == ArraysUpTo(MaxArr)

ObjectValues == {[obj |-> "o1"], [obj |-> "o2"]}

Values(key) ==
  IF key = ExtraKey THEN {<<"x">>}
  ELSE CASE FieldType(key) = "number" -> NumberValues
         [] FieldType(key) = "boolean" -> BOOLEAN
         [] FieldType(key) = "string" -> StringValues
         [] FieldType(key) = "text" -> StringValues
         [] FieldType(key) = "point" -> PointValues
         [] FieldType(key) = "date" -> DateValues
         [] FieldType(key) = "string[]" -> ArrayValues
         [] FieldType(key) = "object" -> ObjectValues

\* One value of each key, for the inputs that hold several keys.
TypicalValue(key) ==
  CASE key = "aString" -> <<"f", "o", "o">>
    [] key = "aNumber" -> Int2Num(42)
    [] key = "aBoolean" -> FALSE
    [] key = "someText" -> <<"a">>
    [] key = "aPoint" -> [longitude |-> Dec(-12227, 2), latitude |-> Dec(378, 1)]
    [] key = "aDate" -> DateOf(Int2Num(86400000))
    [] key = "someStrings" -> <<<<"a">>, <<"f", "o", "o">>>>
    [] key = "otherStrings" -> <<<<"a">>, <<"a">>>>
    [] key = "anObject" -> [obj |-> "o1"]
    [] key = "anotherString" -> <<"a">>
    [] OTHER -> <<"x">>

\* The stored form of the typical values, as the store holds them.
TypicalHashValue(key) ==
  CASE key = "aString" -> <<"f", "o", "o">>
    [] key = "aNumber" -> <<"4", "2">>
    [] key = "aBoolean" -> <<"0">>
    [] key = "someText" -> <<"a">>
    [] key = "aPoint" -> <<"1", ".", "5", ",", "3">>
    [] key = "aDate" -> <<"8", "6", "4">>
    [] key = "someStrings" -> <<"a", "|", "f", "o", "o">>
    [] key = "otherStrings" -> <<"a", ",", "a">>
    [] key = "anObject" -> [obj |-> "o1"]
    [] key = "anotherString" -> <<"a">>
    [] OTHER -> <<"x">>

TypicalJsonValue(key) ==
  CASE key = "aPoint" -> <<"1", ".", "5", ",", "3">>
    [] key = "aDate" -> Int2Num(86400000)
    [] OTHER -> TypicalValue(key)

RawAlphabet == {"0", "1", "a", "-", "."}

RECURSIVE StringsUpTo(_)
StringsUpTo(n) ==
  IF n = 0 THEN {<<>>}
  ELSE LET prev == StringsUpTo(n - 1)
       IN prev \cup {Append(x, c) : x \in prev, c \in RawAlphabet}

RawStrings == StringsUpTo(MaxLen)

\* The string fields of a flat record (an object field holds what was stored).
HashStringKeys == AllKeys \ {"anObject"}

\* The keys of a structured record that are null: none, one, or all of them.
NullSets(S) == {{}} \cup {{k} : k \in S} \cup {S}

NoRecord == [t |-> "none"]

----------------------------------------------------------------------------
(* The state machine of the converters.  A behaviour starts from an Entity *)
(* Data to encode or from a record read from the store.                    *)

ConvInit ==
  /\ decoded = EmptyObject
  /\ err = NoError
  /\ \/ /\ pc = "entity" /\ source = "entity" /\ enc = "none"
        /\ hashData = EmptyObject /\ jsonData = NoRecord
        /\ \/ \E key \in AllKeys : \E v \in Values(key) : entityData = (key :> v)
           \/ \E S \in SUBSET AllKeys : entityData = [key \in S |-> TypicalValue(key)]
     \/ /\ pc = "hash" /\ source = "store" /\ enc = "hash"
        /\ entityData = EmptyObject /\ jsonData = NoRecord
        /\ \/ \E key \in HashStringKeys : \E raw \in RawStrings :
                hashData = (key :> raw)
           \/ \E key \in HashStringKeys : \E raw \in RawStrings :
                hashData = (key :> raw) @@ [k \in AllKeys |-> TypicalHashValue(k)]
           \/ \E S \in SUBSET AllKeys : hashData = [key \in S |-> TypicalHashValue(key)]
     \/ /\ pc = "json" /\ source = "store" /\ enc = "json"
        /\ entityData = EmptyObject /\ hashData = EmptyObject
        /\ \/ jsonData = JsonNull
           \/ \E S \in SUBSET AllKeys : \E N \in NullSets(S) :
                jsonData = [t |-> "object",
                            fields |-> [key \in S |->
                                          IF key \in N THEN JsonNull
                                          ELSE JsonValue(TypicalJsonValue(key))]]

\* hashData = converter.toHashData(entityData)
ToHashData ==
  /\ pc = "entity"
  /\ hashData' = toHashData(entityData)
  /\ pc' = "hash" /\ enc' = "hash"
  /\ UNCHANGED <<source, entityData, jsonData, decoded, err>>
  /\ UNCHANGED <<searchVars, restVars>>

\* jsonData = converter.toJsonData(entityData)
ToJsonData ==
  /\ pc = "entity"
  /\ jsonData' = toJsonData(entityData)
  /\ pc' = "json" /\ enc' = "json"
  /\ UNCHANGED <<source, entityData, hashData, decoded, err>>
  /\ UNCHANGED <<searchVars, restVars>>

\* entityData = converter.toEntityData(hashData), which returns or throws
HashToEntityData ==
  /\ pc = "hash"
  /\ LET r == hashToEntityData(hashData)
     IN IF r.ok
        THEN decoded' = r.value /\ err' = NoError /\ pc' = "returned"
        ELSE decoded' = decoded /\ err' = r.error /\ pc' = "thrown"
  /\ UNCHANGED <<source, enc, entityData, hashData, jsonData>>
  /\ UNCHANGED <<searchVars, restVars>>

\* entityData = converter.toEntityData(jsonData), which returns or throws
JsonToEntityData ==
  /\ pc = "json"
  /\ LET r == jsonToEntityData(jsonData)
     IN IF r.ok
        THEN decoded' = r.value /\ err' = NoError /\ pc' = "returned"
        ELSE decoded' = decoded /\ err' = r.error /\ pc' = "thrown"
  /\ UNCHANGED <<source, enc, entityData, hashData, jsonData>>
  /\ UNCHANGED <<searchVars, restVars>>

\* No accessor has been called.
AccessIdle == access = [op |-> "none", sets |-> 0]

\* The index schema builder at rest.
IndexIdle == definition = <<>> /\ redisSchema = <<>> /\ indexPc = "idle"

\* No Search.all is running.
PageIdle ==
  /\ matches = <<>> /\ pageSize = 0 /\ offset = 0
  /\ entities = <<>> /\ found = <<>> /\ allPc = "idle"

\* The Search builder at rest, while the converters run.
SearchIdle ==
  /\ dataStructure = "JSON"
  /\ rootWhere = [node |-> "undefined"]
  /\ leaves = <<>>
  /\ calls = <<>>
  /\ ret = [kind |-> "none"]

Init == ConvInit /\ SearchIdle /\ AccessIdle /\ IndexIdle /\ PageIdle

Next ==
  \/ ToHashData
  \/ ToJsonData
  \/ HashToEntityData
  \/ JsonToEntityData

Spec == Init /\ [][Next]_vars

----------------------------------------------------------------------------
(* Properties of the converters.                                           *)

Finished == pc \in {"returned", "thrown"}

\* The schema fields the input Entity Data holds.
InputFields == DOMAIN entityData \cap SchemaFields

Contains(str, sub) ==
  \E i \in 1..(Len(str) - Len(sub) + 1) : SubSeq(str, i, i + Len(sub) - 1) = sub

\* The values the data model describes: finite numbers, points with finite
\* coordinates, valid date instants, and every value of the other types.
Representable(key, v) ==
  CASE FieldType(key) = "number" -> IsFinite(v)
    [] FieldType(key) = "point" -> IsFinite(v.longitude) /\ IsFinite(v.latitude)
    [] FieldType(key) = "date" -> IsFinite(v.time)
    [] OTHER -> TRUE

AllRepresentable == \A key \in InputFields : Representable(key, entityData[key])

\* A string array that join and split carry through: it has an element, and
\* no element holds the separator of its field.
Separable(key, v) ==
  FieldType(key) = "string[]" =>
    /\ Len(v) > 0
    /\ \A i \in 1..Len(v) : ~Contains(v[i], Separator(SchemaDef[key]))

RoundTripped(key) == key \in DOMAIN decoded /\ decoded[key] = entityData[key]

\* C1, as amended: decoding the flat encoding of an Entity Data of representable
\* values returns, and gives back the value of every field of every type, where
\* a string array is non-empty and none of its elements holds the separator.
C1_FlatRoundTrip ==
  (Finished /\ source = "entity" /\ enc = "hash" /\ AllRepresentable) =>
    /\ pc = "returned"
    /\ \A key \in InputFields : Separable(key, entityData[key]) => RoundTripped(key)

\* C1, as stated: the flat encoding gives back every representable value of
\* every field type, string arrays included.
C1_FlatRoundTripEveryValue ==
  (Finished /\ source = "entity" /\ enc = "hash" /\ AllRepresentable) =>
    /\ pc = "returned"
    /\ \A key \in InputFields : RoundTripped(key)

\* A string array with a custom separator went through join and split.
C1_Witness ==
  /\ pc = "returned" /\ source = "entity" /\ enc = "hash"
  /\ DOMAIN entityData = {"otherStrings"}
  /\ entityData["otherStrings"] = <<<<"a">>, <<"|", "a">>>>
  /\ hashData["otherStrings"] = <<"a", ",", "|", "a">>
  /\ RoundTripped("otherStrings")

\* C2: decoding the structured encoding of an Entity Data of representable
\* values returns, and gives back the value of every field; the record holds a
\* date as its epoch-millisecond number and a point as the string "lon,lat".
C2_JsonRoundTrip ==
  (Finished /\ source = "entity" /\ enc = "json" /\ AllRepresentable) =>
    /\ pc = "returned"
    /\ \A key \in InputFields :
         /\ RoundTripped(key)
         /\ FieldType(key) = "date" =>
              jsonData.fields[key] = JsonValue(entityData[key].time)
         /\ FieldType(key) = "point" =>
              jsonData.fields[key] =
                JsonValue(numberToString(entityData[key].longitude) \o <<",">>
                          \o numberToString(entityData[key].latitude))

\* A point went through the string "-122.27,37.8".
C2_Witness ==
  /\ pc = "returned" /\ source = "entity" /\ enc = "json"
  /\ DOMAIN entityData = {"aPoint"}
  /\ jsonData.fields["aPoint"].v =
       <<"-", "1", "2", "2", ".", "2", "7", ",", "3", "7", ".", "8">>
  /\ decoded["aPoint"] = [longitude |-> Dec(-12227, 2), latitude |-> Dec(378, 1)]

\* The keys of a structured record that hold a value.  The structured decode
\* reads a null as an absent key.
JsonPresent ==
  IF jsonData.t = "object"
  THEN {key \in DOMAIN jsonData.fields : ~IsNull(jsonData.fields[key])}
  ELSE {}

\* C3: in both encodings the encoded record has exactly the keys of the schema
\* fields the Entity Data holds, and the decoded Entity Data has exactly the keys
\* of the schema fields the record holds (a null of a structured record being an
\* absent key); no absent key is emitted and no other key is copied.
C3_KeySets ==
  /\ (source = "entity" /\ enc = "hash") => DOMAIN hashData = InputFields
  /\ (source = "entity" /\ enc = "json") => DOMAIN jsonData.fields = InputFields
  /\ (pc = "returned" /\ enc = "hash") =>
       DOMAIN decoded = DOMAIN hashData \cap SchemaFields
  /\ (pc = "returned" /\ enc = "json") =>
       DOMAIN decoded = JsonPresent \cap SchemaFields

\* A record read from the store with a key of no schema field and without some
\* schema fields was decoded.
C3_Witness ==
  /\ pc = "returned" /\ source = "store" /\ enc = "hash"
  /\ ExtraKey \in DOMAIN hashData
  /\ "aString" \notin DOMAIN hashData
  /\ DOMAIN decoded = {"aNumber", "aBoolean"}

\* The first field of the record, in schema order, that fails to decode is the
\* field `key`: no field before it throws.
RECURSIVE NoneThrowsBefore(_, _)
NoneThrowsBefore(i, key) ==
  IF FieldNames[i] = key THEN TRUE
  ELSE /\ FieldNames[i] \in DOMAIN hashData =>
            fromHashConverters(FieldType(FieldNames[i]), hashData[FieldNames[i]],
                               SchemaDef[FieldNames[i]]).ok
       /\ NoneThrowsBefore(i + 1, key)

\* C4, as stated: decoding a flat record whose boolean field holds a string
\* other than "0" and "1" throws an error that names the field and the raw
\* value, and returns no Entity Data.
C4_BooleanErrorNamesFieldAndValue ==
  (/\ Finished /\ source = "store" /\ enc = "hash"
   /\ "aBoolean" \in DOMAIN hashData
   /\ hashData["aBoolean"] \notin {<<"0">>, <<"1">>}
   /\ NoneThrowsBefore(1, "aBoolean")) =>
    /\ pc = "thrown"
    /\ decoded = EmptyObject
    /\ "value" \in DOMAIN err /\ err.value = hashData["aBoolean"]
    /\ "field" \in DOMAIN err /\ err.field = "aBoolean"

\* An optional sign, then digits with an optional fraction, and nothing else.
IsNumericLiteral(str) ==
  LET u == IF Len(str) > 0 /\ str[1] \in {"+", "-"} THEN Tail(str) ELSE str
      d1 == DigitPrefix(u)
      r1 == Drop(u, Len(d1))
      d2 == IF Len(r1) > 0 /\ r1[1] = "." THEN DigitPrefix(Tail(r1)) ELSE <<>>
  IN /\ Len(d1) + Len(d2) > 0
     /\ \/ r1 = <<>>
        \/ r1[1] = "." /\ Len(r1) = 1 + Len(d2)

\* C5, as stated: decoding a flat record whose number field or date field
\* holds a string that is not a numeric literal throws.
C5_MalformedNumberOrDateThrows ==
  \A key \in {"aNumber", "aDate"} :
    (/\ Finished /\ source = "store" /\ enc = "hash"
     /\ key \in DOMAIN hashData
     /\ ~IsNumericLiteral(hashData[key])
     /\ NoneThrowsBefore(1, key)) =>
      pc = "thrown"

\* What the typical structured values decode to.
ExpectedFromJson(key) ==
  IF key = "aPoint" THEN [longitude |-> Dec(15, 1), latitude |-> Int2Num(3)]
  ELSE TypicalValue(key)

\* C6: the structured decode of a record read from the store returns; a null
\* record gives an empty Entity Data, a field that is null gets no key, and the
\* fields that are not null are decoded.
C6_NullIsAbsent ==
  (Finished /\ source = "store" /\ enc = "json") =>
    /\ pc = "returned"
    /\ jsonData.t = "null" => decoded = EmptyObject
    /\ jsonData.t = "object" =>
         \A key \in SchemaFields \cap DOMAIN jsonData.fields :
           IF IsNull(jsonData.fields[key]) THEN key \notin DOMAIN decoded
           ELSE key \in DOMAIN decoded /\ decoded[key] = ExpectedFromJson(key)

\* A record with one null field and other fields was decoded.
C6_Witness ==
  /\ pc = "returned" /\ source = "store" /\ enc = "json"
  /\ jsonData.t = "object"
  /\ DOMAIN jsonData.fields = {"aString", "aBoolean", "aPoint"}
  /\ IsNull(jsonData.fields["aBoolean"])
  /\ DOMAIN decoded = {"aString", "aPoint"}

----------------------------------------------------------------------------
(* The fluent Search builder.  A WhereField is an object with an identity: *)
(* the tree holds the index of the leaf in `leaves`.                       *)

Undefined == [node |-> "undefined"]

IsUndefined(where) == where.node = "undefined"

LeafNode(id) == [node |-> "leaf", id |-> id]

\* new WhereAnd(left, right) and new WhereOr(left, right)
WhereAnd(left, right) == [node |-> "WhereAnd", left |-> left, right |-> right]

WhereOr(left, right) == [node |-> "WhereOr", left |-> left, right |-> right]

Construct(ctor, left, right) ==
  IF ctor = "WhereAnd" THEN WhereAnd(left, right) ELSE WhereOr(left, right)

\* The field names handed to where, and and or.
SearchFieldInputs == {"aNumber", "aBoolean", "anObject", "missing"}

\* The operands handed to a leaf.
Operands == {"1"}

\* new WhereXxx(search, field): a leaf that has not been given its operand.
NewWhere(class, field) == [class |-> class, field |-> field, operand |-> "pending"]

\* Search.createWhere with a leaf for every declared field (mutant).
createWhereForAnyType(field) ==
  IF field \notin DOMAIN SchemaDef
  THEN Throw([template |-> "The field '${field}' is not part of the schema.",
              field |-> field])
  ELSE Ok(NewWhere("WhereString", field))

\* Search.createWhere: the leaf for the field, or the error thrown.
createWhere(field) ==
  IF field \notin DOMAIN SchemaDef
  THEN Throw([template |-> "The field '${field}' is not part of the schema.",
              field |-> field])
  ELSE LET fieldDef == SchemaDef[field]
       IN CASE fieldDef.type = "boolean" /\ dataStructure = "HASH" ->
                 Ok(NewWhere("WhereHashBoolean", field))
            [] fieldDef.type = "boolean" /\ dataStructure = "JSON" ->
                 Ok(NewWhere("WhereJsonBoolean", field))
            [] fieldDef.type = "date" -> Ok(NewWhere("WhereDate", field))
            [] fieldDef.type = "number" -> Ok(NewWhere("WhereNumber", field))
            [] fieldDef.type = "point" -> Ok(NewWhere("WherePoint", field))
            [] fieldDef.type = "text" -> Ok(NewWhere("WhereText", field))
            [] fieldDef.type = "string" -> Ok(NewWhere("WhereString", field))
            [] fieldDef.type = "string[]" -> Ok(NewWhere("WhereStringArray", field))
            [] OTHER ->
                 Throw([template |->
                          "The field type of '${fieldDef.type}' is not a valid field type.",
                        type |-> fieldDef.type])

\* The root with the new leaf on the left (mutant).
combineRootSwapped(ctor, root, where) ==
  IF IsUndefined(root) THEN where ELSE Construct(ctor, where, root)

\* The root that anyWhereForField assigns.
combineRoot(ctor, root, where) ==
  IF IsUndefined(root) THEN where ELSE Construct(ctor, root, where)

\* Search.anyWhereForField, called as `name` with constructor `ctor`.
anyWhereForField(name, ctor, field) ==
  LET r == createWhere(field)
      id == Len(leaves) + 1
  IN IF r.ok
     THEN /\ Len(calls) < MaxCalls /\ Len(leaves) < MaxCalls
          /\ leaves' = Append(leaves, r.value)
          /\ rootWhere' = combineRoot(ctor, rootWhere, LeafNode(id))
          /\ calls' = Append(calls, [name |-> name, field |-> field])
          /\ ret' = [kind |-> "where", name |-> name, field |-> field, id |-> id]
     ELSE /\ ret' = [kind |-> "error", name |-> name, field |-> field,
                     error |-> r.error]
          /\ UNCHANGED <<rootWhere, leaves, calls>>

\* search.where(field)
Where(field) ==
  /\ anyWhereForField("where", "WhereAnd", field)
  /\ UNCHANGED <<dataStructure, convVars, restVars>>

\* search.and(field)
And(field) ==
  /\ anyWhereForField("and", "WhereAnd", field)
  /\ UNCHANGED <<dataStructure, convVars, restVars>>

\* search.or(field)
Or(field) ==
  /\ anyWhereForField("or", "WhereOr", field)
  /\ UNCHANGED <<dataStructure, convVars, restVars>>

\* A leaf is given its operand, as in where('aNumber').eq(1); the call
\* returns the Search.
GiveOperand(id, operand) ==
  /\ id \in 1..Len(leaves)
  /\ leaves[id].operand = "pending"
  /\ leaves' = [leaves EXCEPT ![id].operand = operand]
  /\ ret' = [kind |-> "search"]
  /\ UNCHANGED <<dataStructure, rootWhere, calls, convVars, restVars>>

\* Where.toString: a leaf as {field}=operand, a combinator fully parenthesised.
RECURSIVE whereToString(_, _)
whereToString(where, heap) ==
  CASE where.node = "leaf" ->
         <<"{", heap[where.id].field, "}=", heap[where.id].operand>>
    [] where.node = "WhereAnd" ->
         <<"(">> \o whereToString(where.left, heap) \o <<"AND">>
         \o whereToString(where.right, heap) \o <<")">>
    [] where.node = "WhereOr" ->
         <<"(">> \o whereToString(where.left, heap) \o <<"OR">>
         \o whereToString(where.right, heap) \o <<")">>

\* Search.query with the wildcard for a root that is a single leaf (mutant).
queryWildcardForLeaf ==
  IF IsUndefined(rootWhere) \/ rootWhere.node = "leaf" THEN <<"*">>
  ELSE whereToString(rootWhere, leaves)

\* Search.query
query ==
  IF IsUndefined(rootWhere) THEN <<"*">> ELSE whereToString(rootWhere, leaves)

\* A read of the query that resets the builder (mutant).
ReadQueryAndReset ==
  /\ ret' = [kind |-> "query", text |-> query,
             reads |-> IF ret.kind = "query" THEN 2 ELSE 1]
  /\ rootWhere' = Undefined
  /\ UNCHANGED <<dataStructure, leaves, calls, convVars, restVars>>

\* let q = search.query; `reads` counts the reads in a row, up to two.
ReadQuery ==
  /\ ret' = [kind |-> "query", text |-> query,
             reads |-> IF ret.kind = "query" THEN 2 ELSE 1]
  /\ UNCHANGED <<dataStructure, rootWhere, leaves, calls, convVars, restVars>>

\* The converters at rest, while the Search builder runs.
ConvIdle ==
  /\ pc = "idle" /\ source = "none" /\ enc = "none"
  /\ entityData = EmptyObject /\ hashData = EmptyObject /\ jsonData = NoRecord
  /\ decoded = EmptyObject /\ err = NoError

\* new Search(schema, client)
SearchInit ==
  /\ dataStructure \in {"HASH", "JSON"}
  /\ rootWhere = Undefined
  /\ leaves = <<>>
  /\ calls = <<>>
  /\ ret = [kind |-> "none"]
  /\ ConvIdle /\ AccessIdle /\ IndexIdle /\ PageIdle

SearchNext ==
  \/ \E field \in SearchFieldInputs : Where(field)
  \/ \E field \in SearchFieldInputs : And(field)
  \/ \E field \in SearchFieldInputs : Or(field)
  \/ \E id \in 1..MaxCalls : \E operand \in Operands : GiveOperand(id, operand)
  \/ ReadQuery

SearchSpec == SearchInit /\ [][SearchNext]_vars

----------------------------------------------------------------------------
(* Properties of the Search builder.                                       *)

CtorOf(name) == IF name = "or" THEN "WhereOr" ELSE "WhereAnd"

\* The tree the first n calls of the history stand for, built from the left.
RECURSIVE LeftAssociated(_)
LeftAssociated(n) ==
  IF n = 0 THEN Undefined
  ELSE IF n = 1 THEN LeafNode(1)
  ELSE [node |-> CtorOf(calls[n].name),
        left |-> LeftAssociated(n - 1),
        right |-> LeafNode(n)]

\* C7: after the calls c1..cn that returned, the root is the leaf of c1 when
\* n = 1 and otherwise op_n(root after n - 1 calls, leaf of cn), with AND for
\* where and and, OR for or; the leaf of call i is on the field of call i.
C7_LeftAssociative ==
  /\ Len(leaves) = Len(calls)
  /\ \A i \in 1..Len(calls) : leaves[i].field = calls[i].field
  /\ rootWhere = LeftAssociated(Len(calls))

\* where(aNumber).or(aBoolean).and(aNumber) gave ((l1 OR l2) AND l3).
C7_Witness ==
  /\ Len(calls) = 3
  /\ calls[1].name = "where" /\ calls[2].name = "or" /\ calls[3].name = "and"
  /\ rootWhere = WhereAnd(WhereOr(LeafNode(1), LeafNode(2)), LeafNode(3))

\* C8: the query that was read is '*' exactly when the root is absent; a new
\* builder has no root, and once a where, and or or call has returned the
\* root is present and the query read is the rendering of the root.
C8_WildcardIffNoRoot ==
  /\ Len(calls) = 0 <=> IsUndefined(rootWhere)
  /\ ret.kind = "where" => ~IsUndefined(rootWhere)
  /\ ret.kind = "query" =>
       /\ ret.text = <<"*">> <=> IsUndefined(rootWhere)
       /\ ~IsUndefined(rootWhere) => ret.text = whereToString(rootWhere, leaves)

\* The query of a builder with two leaves was read, and is not '*'.
C8_Witness ==
  /\ ret.kind = "query"
  /\ Len(calls) = 2
  /\ ret.text = <<"(", "{", "aNumber", "}=", "1", "OR", "{", "aBoolean", "}=",
                  "pending", ")">>

UnknownFieldError(e) ==
  e.template = "The field '${field}' is not part of the schema."

UnsupportedTypeError(e) ==
  e.template = "The field type of '${fieldDef.type}' is not a valid field type."

\* C10: a where, and or or call on a field the schema does not declare throws
\* the unknown-field error, and on a declared field of type object throws the
\* unsupported-type error; either way the root, and every leaf, is as before.
C10_RejectedFieldLeavesRoot ==
  [][(/\ ret'.kind \in {"where", "error"}
      /\ \/ ret'.field \notin SchemaFields
         \/ FieldType(ret'.field) = "object") =>
       /\ ret'.kind = "error"
       /\ IF ret'.field \notin SchemaFields
          THEN UnknownFieldError(ret'.error) /\ ret'.error.field = ret'.field
          ELSE UnsupportedTypeError(ret'.error) /\ ret'.error.type = "object"
       /\ rootWhere' = rootWhere
       /\ leaves' = leaves
       /\ calls' = calls]_vars

\* A call on the object field threw on a builder that has a root.
C10_Witness ==
  /\ ret.kind = "error" /\ ret.field = "anObject"
  /\ UnsupportedTypeError(ret.error)
  /\ Len(calls) = 2
  /\ rootWhere = WhereOr(LeafNode(1), LeafNode(2))

----------------------------------------------------------------------------
(* Nested sub-queries.  A sub-search function is a list of where/and/or    *)
(* steps that it runs on the Search it is given, each leaf given its       *)
(* operand at once as in s.where('aBoolean').eq(1), and the Search that it *)
(* returns: the one it was given, or the parent it closes over.            *)

\* The constructor that where, and and or hand to anyWhere.
anyWhereCtor(name) == IF name = "or" THEN "WhereOr" ELSE "WhereAnd"

\* The steps of a sub-search function.
SubSteps == {[name |-> n, field |-> "aBoolean"] : n \in {"where", "or"}}

RECURSIVE StepsUpTo(_)
StepsUpTo(n) ==
  IF n = 0 THEN {<<>>}
  ELSE StepsUpTo(n - 1) \cup
       {Append(p, s) : p \in {q \in StepsUpTo(n - 1) : Len(q) = n - 1},
                       s \in SubSteps}

SubSearchFunctions ==
  {[steps |-> p, returns |-> "given"] : p \in StepsUpTo(MaxSteps)}
  \cup {[steps |-> <<[name |-> "where", field |-> "missing"]>>,
         returns |-> "given"],
        [steps |-> <<>>, returns |-> "parent"]}

\* The steps from the i-th on, run on a Search whose root is `root`, with the
\* WhereField objects created so far in `heap`: the root and the heap at the
\* end, or the error that createWhere threw.
RECURSIVE runSteps(_, _, _, _)
runSteps(steps, i, root, heap) ==
  IF i > Len(steps) THEN Ok([root |-> root, heap |-> heap])
  ELSE LET r == createWhere(steps[i].field)
       IN IF ~r.ok THEN r
          ELSE runSteps(steps, i + 1,
                        combineRoot(anyWhereCtor(steps[i].name), root,
                                    LeafNode(Len(heap) + 1)),
                        Append(heap, [r.value EXCEPT !.operand = "1"]))

\* subSearchFn(new Search(schema, client)): the rootWhere of the Search it
\* returns, and the heap.
subSearchFn(fn) ==
  LET r == runSteps(fn.steps, 1, Undefined, leaves)
  IN IF ~r.ok THEN r
     ELSE IF fn.returns = "parent"
          THEN Ok([root |-> rootWhere, heap |-> leaves])
          ELSE r

EmptySubSearch ==
  [template |-> "Sub-search without and root where was somehow defined."]

\* The root with the sub-query in place of the whole tree (mutant).
spliceSubSearchReplacing(ctor, root, subRoot) == subRoot

\* The root that anyWhereForFunction assigns.
spliceSubSearch(ctor, root, subRoot) ==
  IF IsUndefined(root) THEN subRoot ELSE Construct(ctor, root, subRoot)

\* The number of leaves that a tree holds, a leaf counted once for each place.
RECURSIVE LeafCount(_)
LeafCount(where) ==
  CASE where.node = "undefined" -> 0
    [] where.node = "leaf" -> 1
    [] OTHER -> LeafCount(where.left) + LeafCount(where.right)

\* Search.anyWhereForFunction, called as `name` with constructor `ctor`.  The
\* model stops at trees of MaxCalls leaves.
anyWhereForFunction(name, ctor, fn) ==
  LET r == subSearchFn(fn)
  IN /\ Len(leaves) + Len(fn.steps) <= MaxCalls
     /\ IF ~r.ok
        THEN /\ ret' = [kind |-> "error", name |-> name, field |-> "subSearchFn",
                        error |-> r.error]
             /\ UNCHANGED <<rootWhere, leaves, calls>>
        ELSE IF IsUndefined(r.value.root)
        THEN /\ ret' = [kind |-> "subsearch", name |-> name, steps |-> fn.steps,
                        given |-> fn.returns = "given",
                        sub |-> r.value.root, error |-> EmptySubSearch]
             /\ UNCHANGED <<rootWhere, leaves, calls>>
        ELSE /\ Len(calls) < MaxCalls
             /\ LeafCount(rootWhere) + LeafCount(r.value.root) <= MaxCalls
             /\ rootWhere' = spliceSubSearch(ctor, rootWhere, r.value.root)
             /\ leaves' = r.value.heap
             /\ calls' = Append(calls, [name |-> name, field |-> "subSearchFn"])
             /\ ret' = [kind |-> "subsearch", name |-> name, steps |-> fn.steps,
                        given |-> fn.returns = "given",
                        sub |-> r.value.root, error |-> NoError]

\* search.where(subSearchFn)
WhereFunction(fn) ==
  /\ anyWhereForFunction("where", "WhereAnd", fn)
  /\ UNCHANGED <<dataStructure, convVars, restVars>>

\* search.and(subSearchFn)
AndFunction(fn) ==
  /\ anyWhereForFunction("and", "WhereAnd", fn)
  /\ UNCHANGED <<dataStructure, convVars, restVars>>

\* search.or(subSearchFn)
OrFunction(fn) ==
  /\ anyWhereForFunction("or", "WhereOr", fn)
  /\ UNCHANGED <<dataStructure, convVars, restVars>>

SubSearchNext ==
  \/ Where("aNumber")
  \/ And("aNumber")
  \/ Or("aNumber")
  \/ \E fn \in SubSearchFunctions : WhereFunction(fn)
  \/ \E fn \in SubSearchFunctions : AndFunction(fn)
  \/ \E fn \in SubSearchFunctions : OrFunction(fn)

SubSearchSpec == SearchInit /\ [][SubSearchNext]_vars

\* The tree that the steps p[1..n] stand for on a Search with no root, when
\* the first leaf that they create has the identity first.
RECURSIVE SubTree(_, _, _)
SubTree(p, n, first) ==
  IF n = 0 THEN Undefined
  ELSE IF n = 1 THEN LeafNode(first)
  ELSE [node |-> CtorOf(p[n].name),
        left |-> SubTree(p, n - 1, first),
        right |-> LeafNode(first + n - 1)]

\* C11: where, and or or given a function runs it on a new Search that has no
\* root.  When the Search that the function returns has no root the call
\* throws the empty-sub-search error and the parent's root is as before;
\* otherwise the parent's root becomes the sub-query's root when the parent
\* had none and op(previous root, sub-query's root) when it had one, with
\* AND for where and and, OR for or.
C11_SubSearchSpliced ==
  [][ret'.kind = "subsearch" =>
       /\ ret'.given =>
            ret'.sub = SubTree(ret'.steps, Len(ret'.steps), Len(leaves) + 1)
       /\ IF IsUndefined(ret'.sub)
          THEN /\ ret'.error = EmptySubSearch
               /\ rootWhere' = rootWhere
               /\ leaves' = leaves
          ELSE /\ ret'.error = NoError
               /\ rootWhere' =
                    IF IsUndefined(rootWhere) THEN ret'.sub
                    ELSE [node |-> CtorOf(ret'.name), left |-> rootWhere,
                          right |-> ret'.sub]]_vars

\* or(s => s.where('aBoolean').eq(1).or('aBoolean').eq(1)) was called on a
\* Search whose root was one leaf.
C11_Witness ==
  /\ ret.kind = "subsearch" /\ ret.name = "or" /\ ret.error = NoError
  /\ rootWhere = WhereOr(LeafNode(1), WhereOr(LeafNode(2), LeafNode(3)))
  /\ ret.sub = WhereOr(LeafNode(2), LeafNode(3))

\* A function that returned the Search it was given, untouched, was rejected
\* on a Search that has a root.
C11_WitnessEmpty ==
  /\ ret.kind = "subsearch" /\ ret.error = EmptySubSearch
  /\ ~IsUndefined(rootWhere)

----------------------------------------------------------------------------
(* The field accessors that Schema.defineProperties puts on the Entity.    *)
(* A value handed to a setter is a record [t, v]: t is what typeof,        *)
(* instanceof Date and Array.isArray tell about it, v is the value.        *)

JsUndefined == [t |-> "undefined"]

JsNull == [t |-> "null"]

JsNumber(n) == [t |-> "number", v |-> n]

JsString(s) == [t |-> "string", v |-> s]

JsBoolean(b) == [t |-> "boolean", v |-> b]

JsDate(d) == [t |-> "date", v |-> d]

JsArray(a) == [t |-> "array", v |-> a]

JsObject(o) == [t |-> "object", v |-> o]

\* value.toString() of a string, a number or a boolean
toString(value) ==
  CASE value.t = "string" -> value.v
    [] value.t = "number" -> numberToString(value.v)
    [] value.t = "boolean" ->
         (IF value.v THEN <<"t", "r", "u", "e">> ELSE <<"f", "a", "l", "s", "e">>)

\* The days of a month of the Gregorian calendar.
DaysInMonth(year, month) ==
  CASE month \in {4, 6, 9, 11} -> 30
    [] month = 2 ->
         (IF year % 4 = 0 /\ (year % 100 # 0 \/ year % 400 = 0) THEN 29 ELSE 28)
    [] OTHER -> 31

RECURSIVE DaysBeforeMonth(_, _)
DaysBeforeMonth(year, month) ==
  IF month = 1 THEN 0
  ELSE DaysBeforeMonth(year, month - 1) + DaysInMonth(year, month - 1)

\* Date.parse of the date-only form YYYY-MM-DD, which is UTC midnight of the
\* day; a string of no date form gives NaN.  The other date forms are not
\* modelled, and no input of the model has one.  The model holds the days of
\* 1970 only.
DateParse(s) ==
  IF /\ Len(s) = 10
     /\ \A i \in {1, 2, 3, 4, 6, 7, 9, 10} : IsDigit(s[i])
     /\ s[5] = "-" /\ s[8] = "-"
  THEN LET year == DigitsVal(SubSeq(s, 1, 4))
           month == DigitsVal(SubSeq(s, 6, 7))
           day == DigitsVal(SubSeq(s, 9, 10))
       IN IF /\ year = 1970 /\ month \in 1..12
             /\ day \in 1..DaysInMonth(year, month)
             /\ DaysBeforeMonth(year, month) + day - 1 < 24
          THEN Int2Num((DaysBeforeMonth(year, month) + day - 1) * 86400000)
          ELSE NaN
  ELSE NaN

\* new Date(value) of a string
newDate(s) == DateOf(DateParse(s))

\* fieldDef.alias ?? field
FieldAlias(field) ==
  IF "alias" \in DOMAIN SchemaDef[field] THEN SchemaDef[field].alias ELSE field

\* this.entityCtor.name
entityName == "Foo"

\* delete obj[key]
Delete(obj, key) == [k \in DOMAIN obj \ {key} |-> obj[k]]

isString(value) == value.t = "string"

isNumber(value) == value.t = "number"

isBoolean(value) == value.t = "boolean"

isDate(value) == value.t = "date"

isArray(value) == value.t = "array"

isStringable(value) == isString(value) \/ isNumber(value) \/ isBoolean(value)

isDateable(value) == isDate(value) \/ isString(value) \/ isNumber(value)

\* A member of a value that is not an object reads as undefined.
Member(value, key) ==
  IF value.t = "object" /\ key \in DOMAIN value.v THEN value.v[key]
  ELSE JsUndefined

isPoint(value) ==
  isNumber(Member(value, "longitude")) /\ isNumber(Member(value, "latitude"))

UndefinedError(field) ==
  [template |-> "Property '${field}' on entity of type '${entityName}' cannot be set to undefined. Use null instead.",
   field |-> field, entityName |-> entityName]

RedisError(field, fieldType, value) ==
  [template |-> "Property '${field}' expected type of '${fieldType}' but received value of '${value}'.",
   field |-> field, fieldType |-> fieldType, value |-> value]

\* value.map((v: any) => v.toString()): the strings, or the TypeError that
\* toString on null or undefined throws.
RECURSIVE mapToString(_, _)
mapToString(arr, i) ==
  IF i > Len(arr) THEN Ok(<<>>)
  ELSE IF arr[i].t \in {"null", "undefined"} THEN Throw(TypeError)
  ELSE LET rest == mapToString(arr, i + 1)
       IN IF rest.ok THEN Ok(<<toString(arr[i])>> \o rest.value) ELSE rest

\* The setter of `field`, on an entity that holds `data`: the Entity Data
\* after the call, or the error thrown.
set(field, value, data) ==
  LET fieldDef == SchemaDef[field]
      fieldType == fieldDef.type
      fieldAlias == FieldAlias(field)
  IN CASE value.t = "undefined" -> Throw(UndefinedError(field))
       [] value.t = "null" -> Ok(Delete(data, fieldAlias))
       [] OTHER ->
          CASE fieldType = "string" /\ isStringable(value) ->
                 Ok(Put(data, fieldAlias, toString(value)))
            [] fieldType = "object" -> Ok(Put(data, fieldAlias, value.v))
            [] fieldType = "text" /\ isStringable(value) ->
                 Ok(Put(data, fieldAlias, toString(value)))
            [] fieldType = "number" /\ isNumber(value) ->
                 Ok(Put(data, fieldAlias, value.v))
            [] fieldType = "boolean" /\ isBoolean(value) ->
                 Ok(Put(data, fieldAlias, value.v))
            [] fieldType = "point" /\ isPoint(value) ->
                 Ok(Put(data, fieldAlias,
                        [longitude |-> Member(value, "longitude").v,
                         latitude |-> Member(value, "latitude").v]))
            [] fieldType = "date" /\ isDateable(value) /\ isDate(value) ->
                 Ok(Put(data, fieldAlias, value.v))
            [] fieldType = "date" /\ isDateable(value) /\ isString(value) ->
                 Ok(Put(data, fieldAlias, newDate(value.v)))
            [] fieldType = "date" /\ isDateable(value) /\ isNumber(value) ->
                 Ok(Put(data, fieldAlias, setTime(value.v)))
            [] fieldType = "string[]" /\ isArray(value) ->
                 (LET strings == mapToString(value.v, 1)
                  IN IF strings.ok THEN Ok(Put(data, fieldAlias, strings.value))
                     ELSE strings)
            [] OTHER -> Throw(RedisError(field, fieldType, value))

\* What a getter returns: the value that Entity Data holds, or null.
Held(v) == [t |-> "value", v |-> v]

\* The getter of `field` with || in place of ??, which turns the falsy values
\* into null (mutant).
getFalsyAsNull(field, data) ==
  LET fieldAlias == FieldAlias(field)
      falsy == CASE FieldType(field) = "number" ->
                      data[fieldAlias] = Int2Num(0) \/ IsNaN(data[fieldAlias])
                 [] FieldType(field) \in {"string", "text"} -> data[fieldAlias] = <<>>
                 [] FieldType(field) = "boolean" -> ~data[fieldAlias]
                 [] OTHER -> FALSE
  IN IF fieldAlias \in DOMAIN data /\ ~falsy THEN Held(data[fieldAlias])
     ELSE JsNull

\* The getter of `field`: this.entityData[fieldAlias] ?? null
get(field, data) ==
  LET fieldAlias == FieldAlias(field)
  IN IF fieldAlias \in DOMAIN data THEN Held(data[fieldAlias]) ELSE JsNull

\* Most calls of a setter on one entity.
MaxSets == 1

\* The fields whose setter is called; aString and otherStrings are set as
\* anotherString and someStrings are.
SetFields ==
  {"aNumber", "aBoolean", "someText", "aPoint", "aDate", "someStrings",
   "anObject", "anotherString"}

IsoDate == <<"1", "9", "7", "0", "-", "0", "1", "-", "0", "2">>

\* The values handed to a setter.
SetValues ==
  {JsUndefined, JsNull,
   JsNumber(Int2Num(0)), JsNumber(Int2Num(86400000)), JsNumber(NaN),
   JsNumber(Infinity), JsNumber(NegInfinity),
   JsString(<<>>), JsString(<<"a", "b", "c">>), JsString(IsoDate),
   JsBoolean(FALSE),
   JsDate(DateOf(Int2Num(86400000))),
   JsArray(<<JsString(<<"a">>), JsNumber(Int2Num(1))>>),
   JsObject([longitude |-> JsNumber(Dec(15, 1)), latitude |-> JsNumber(Int2Num(3))]),
   JsObject([obj |-> "o1"])}

\* The keys that hold null in the structured record that an entity is
\* fetched from.
FetchedNulls == SchemaFields \ {"aString", "aNumber"}

\* entity.field = value
Set(field, value) ==
  /\ pc = "entity"
  /\ access.sets < MaxSets
  /\ LET r == set(field, value, entityData)
     IN /\ entityData' = IF r.ok THEN r.value ELSE entityData
        /\ access' = [op |-> "set", field |-> field, value |-> value,
                      error |-> IF r.ok THEN NoError ELSE r.error,
                      sets |-> access.sets + 1]
  /\ UNCHANGED <<pc, source, enc, hashData, jsonData, decoded, err>>
  /\ UNCHANGED <<searchVars, indexVars, pageVars>>

\* let result = entity.field
Get(field) ==
  /\ pc = "entity"
  /\ access' = [op |-> "get", field |-> field, result |-> get(field, entityData),
                sets |-> access.sets]
  /\ UNCHANGED <<convVars, searchVars, indexVars, pageVars>>

\* Repository.fetch: the record read from the store is decoded, and the
\* entity is made of the Entity Data.
Fetch ==
  /\ pc \in {"hash", "json"} /\ source = "store"
  /\ LET r == IF pc = "hash" THEN hashToEntityData(hashData)
              ELSE jsonToEntityData(jsonData)
     IN IF r.ok
        THEN entityData' = r.value /\ err' = NoError /\ pc' = "entity"
        ELSE entityData' = entityData /\ err' = r.error /\ pc' = "thrown"
  /\ source' = "fetched"
  /\ UNCHANGED <<enc, hashData, jsonData, decoded>>
  /\ UNCHANGED <<searchVars, restVars>>

\* A new entity, or a record of the store that an entity is fetched from:
\* a flat record of every field or of none, no structured record, or a
\* structured record that holds nulls.
EntityInit ==
  /\ decoded = EmptyObject /\ err = NoError /\ entityData = EmptyObject
  /\ \/ /\ pc = "entity" /\ source = "entity" /\ enc = "none"
        /\ hashData = EmptyObject /\ jsonData = NoRecord
     \/ /\ pc = "hash" /\ source = "store" /\ enc = "hash"
        /\ jsonData = NoRecord
        /\ \E S \in {SchemaFields, {}} :
             hashData = [key \in S |-> TypicalHashValue(key)]
     \/ /\ pc = "json" /\ source = "store" /\ enc = "json"
        /\ hashData = EmptyObject
        /\ \/ jsonData = JsonNull
           \/ jsonData = [t |-> "object",
                          fields |-> [key \in SchemaFields |->
                                        IF key \in FetchedNulls THEN JsonNull
                                        ELSE JsonValue(TypicalJsonValue(key))]]
  /\ AccessIdle /\ SearchIdle /\ IndexIdle /\ PageIdle

EntityNext ==
  \/ Fetch
  \/ \E field \in SetFields : \E value \in SetValues : Set(field, value)
  \/ \E field \in SchemaFields : Get(field)
  \/ ToHashData
  \/ ToJsonData

EntitySpec == EntityInit /\ [][EntityNext]_vars

----------------------------------------------------------------------------
(* Properties of the field accessors.                                      *)

\* The step is a call of a setter.
IsSet == access'.op = "set" /\ access'.sets = access.sets + 1

Thrown(a) == a.error.template # "none"

\* 0 for a number field, '' for a string or text field, false for a boolean
\* field.
FalsyAccepted(field, value) ==
  \/ FieldType(field) = "number" /\ value.t = "number" /\ value.v = Int2Num(0)
  \/ FieldType(field) \in {"string", "text"} /\ value.t = "string" /\ value.v = <<>>
  \/ FieldType(field) = "boolean" /\ value.t = "boolean" /\ ~value.v

\* C12: setting a field to null removes the field's key from Entity Data, so
\* that Entity Data holds nothing for the field, under its name or its alias;
\* setting it to 0 (number), '' (string, text) or false (boolean) stores the
\* value, and a read that follows returns that value and not null.
C12_UnsetOnlyByNull ==
  [][/\ (IsSet /\ access'.value.t = "null") =>
          /\ ~Thrown(access')
          /\ access'.field \notin DOMAIN entityData'
          /\ FieldAlias(access'.field) \notin DOMAIN entityData'
     /\ (IsSet /\ FalsyAccepted(access'.field, access'.value)) =>
          /\ ~Thrown(access')
          /\ FieldAlias(access'.field) \in DOMAIN entityData'
          /\ entityData'[FieldAlias(access'.field)] = access'.value.v
     /\ (/\ access.op = "set" /\ access'.op = "get"
         /\ access'.field = access.field
         /\ FalsyAccepted(access.field, access.value)) =>
          /\ access'.result.t = "value"
          /\ access'.result.v = access.value.v]_vars

\* The part of C12 that holds of every field: setting a field to null removes
\* the key that its accessors use, and a falsy value that is stored is read.
UnsetByAccessorKey ==
  [][/\ (IsSet /\ access'.value.t = "null") =>
          /\ ~Thrown(access')
          /\ entityData' = Delete(entityData, FieldAlias(access'.field))
     /\ (IsSet /\ FalsyAccepted(access'.field, access'.value)) =>
          /\ ~Thrown(access')
          /\ FieldAlias(access'.field) \in DOMAIN entityData'
          /\ entityData'[FieldAlias(access'.field)] = access'.value.v
     /\ (/\ access.op = "set" /\ access'.op = "get"
         /\ access'.field = access.field
         /\ FalsyAccepted(access.field, access.value)) =>
          /\ access'.result.t = "value"
          /\ access'.result.v = access.value.v]_vars

\* The acceptance rules of the field types: a finite number; a boolean; for
\* string and text a string, a number or a boolean; a structure with numeric
\* longitude and latitude; a date instant, a date string that parses or an
\* epoch number; an array; for object any value.
Accepts(fieldType, value) ==
  CASE fieldType = "number" -> value.t = "number" /\ IsFinite(value.v)
    [] fieldType = "boolean" -> value.t = "boolean"
    [] fieldType \in {"string", "text"} -> value.t \in {"string", "number", "boolean"}
    [] fieldType = "point" ->
         /\ value.t = "object"
         /\ {"longitude", "latitude"} \subseteq DOMAIN value.v
         /\ value.v.longitude.t = "number" /\ value.v.latitude.t = "number"
    [] fieldType = "date" ->
         \/ value.t = "date"
         \/ value.t = "string" /\ IsFinite(DateParse(value.v))
         \/ value.t = "number" /\ IsFinite(value.v)
    [] fieldType = "string[]" -> value.t = "array"
    [] fieldType = "object" -> TRUE

TypeMismatch(e) ==
  e.template =
    "Property '${field}' expected type of '${fieldType}' but received value of '${value}'."

\* C13: a setter called with a value, other than null and undefined, that the
\* field's type does not accept throws the type-mismatch error, which names
\* the field, its type and the value, and Entity Data is as before the call.
C13_RejectedWriteLeavesData ==
  [][(/\ IsSet
      /\ access'.value.t \notin {"null", "undefined"}
      /\ ~Accepts(FieldType(access'.field), access'.value)) =>
       /\ TypeMismatch(access'.error)
       /\ access'.error.field = access'.field
       /\ access'.error.fieldType = FieldType(access'.field)
       /\ access'.error.value = access'.value
       /\ entityData' = entityData]_vars

\* The part of C13 that the setter keeps: every call that it rejects with the
\* type-mismatch error names the field, its type and the value, and leaves
\* Entity Data as before.
RejectionsLeaveData ==
  [][(IsSet /\ Thrown(access')) =>
       /\ entityData' = entityData
       /\ TypeMismatch(access'.error) =>
            /\ access'.error.field = access'.field
            /\ access'.error.fieldType = FieldType(access'.field)
            /\ access'.error.value = access'.value]_vars

\* C14: every value that Entity Data holds for a number field is a finite
\* number, and a setter of a number field called with NaN, Infinity or
\* -Infinity throws.
C14_NumberFieldsFinite ==
  [][/\ \A f \in SchemaFields :
          (FieldType(f) = "number" /\ FieldAlias(f) \in DOMAIN entityData') =>
            IsFinite(entityData'[FieldAlias(f)])
     /\ (/\ IsSet /\ FieldType(access'.field) = "number"
         /\ access'.value.t = "number" /\ ~IsFinite(access'.value.v)) =>
          Thrown(access')]_vars

\* C15: a setter of a date field called with a date instant, a date string
\* that parses or an epoch number stores the date instant of that time; called
\* with a string that does not parse it throws and stores nothing; whatever it
\* is called with, Entity Data holds no invalid date afterwards.
C15_DatesNormalized ==
  [][(IsSet /\ FieldType(access'.field) = "date") =>
       LET value == access'.value
           fieldAlias == FieldAlias(access'.field)
           Stores(d) == /\ ~Thrown(access')
                        /\ fieldAlias \in DOMAIN entityData'
                        /\ entityData'[fieldAlias] = d
       IN /\ (value.t = "date" /\ IsFinite(value.v.time)) => Stores(value.v)
          /\ (value.t = "string" /\ IsFinite(DateParse(value.v))) =>
               Stores(DateOf(DateParse(value.v)))
          /\ (value.t = "number" /\ IsFinite(value.v)) => Stores(DateOf(value.v))
          /\ (value.t = "string" /\ ~IsFinite(DateParse(value.v))) =>
               Thrown(access') /\ entityData' = entityData
          /\ fieldAlias \in DOMAIN entityData' =>
               IsFinite(entityData'[fieldAlias].time)]_vars

\* The fields that the schema gives an alias other than their name.
AliasedFields == {f \in SchemaFields : FieldAlias(f) # f}

\* C16: once the setter of a field with an alias has stored a value, Entity
\* Data holds the value under the field's name, and the record that either
\* converter makes of that Entity Data holds the encoded value under the
\* alias and nothing under the field's name.
C16_AliasEndToEnd ==
  (/\ access.op = "set" /\ ~Thrown(access)
   /\ access.field \in AliasedFields
   /\ access.value.t = "string") =>
    LET f == access.field
        a == FieldAlias(f)
    IN /\ f \in DOMAIN entityData /\ entityData[f] = access.value.v
       /\ pc = "hash" =>
            /\ a \in DOMAIN hashData /\ hashData[a] = access.value.v
            /\ f \notin DOMAIN hashData
       /\ pc = "json" =>
            /\ a \in DOMAIN jsonData.fields
            /\ jsonData.fields[a] = JsonValue(access.value.v)
            /\ f \notin DOMAIN jsonData.fields

\* The field is in the record that the entity was fetched from.
InRecord(f) ==
  IF enc = "hash" THEN f \in DOMAIN hashData
  ELSE jsonData.t = "object" /\ JsonHasValue(jsonData.fields, f)

\* The typed value that the converter decodes the field of the record to.
DecodedValue(f) ==
  IF enc = "hash" THEN hashToEntityData(hashData).value[f]
  ELSE jsonToEntityData(jsonData).value[f]

\* C19: on an entity fetched from a record, flat or structured, the getter of
\* a field that the record holds returns the decoded value, and the getter
\* of a field that the record does not hold, or holds as null, returns null;
\* so does every getter when there is no record or an empty one.
C19_FetchedFieldsRead ==
  (/\ pc = "entity" /\ source = "fetched"
   /\ access.op = "get" /\ access.sets = 0) =>
    IF InRecord(access.field)
    THEN access.result.t = "value" /\ access.result.v = DecodedValue(access.field)
    ELSE access.result.t = "null"

\* The same for the fields whose alias is their name.
FetchedPlainFieldsRead ==
  (access.op = "get" /\ access.field \notin AliasedFields) => C19_FetchedFieldsRead

----------------------------------------------------------------------------
(* The index schema builder (SchemaBuilder).  Schema.definition is an      *)
(* object, read in the order its fields were declared: a sequence of       *)
(* [field, def].  The names, aliases and words of the index schema are     *)
(* spelled out, since a structured path is made of the alias.  The data    *)
(* structure is 'HASH' or 'JSON': Schema.validateOptions admits no other.  *)

\* How many fields a schema declares, at most.
MaxFields == 2

FieldTypes ==
  {"string", "number", "boolean", "text", "point", "date", "string[]", "object"}

\* The name of the i-th declared field: "f", "ff", ...
IndexFieldName(i) == [j \in 1..i |-> "f"]

\* The alias that the i-th field has when it has one: "af", "aff", ...
IndexAlias(i) == <<"a">> \o IndexFieldName(i)

\* The field definitions that the i-th field may have.
FieldDefs(i) ==
  {[type |-> t] : t \in FieldTypes}
    \cup {[type |-> t, alias |-> IndexAlias(i)] : t \in FieldTypes}
    \cup {[type |-> t, separator |-> <<",">>] : t \in {"string", "string[]"}}
    \cup {[type |-> t, alias |-> IndexAlias(i), separator |-> <<",">>] :
            t \in {"string", "string[]"}}

\* The schema definitions of n fields.
RECURSIVE DefinitionsOf(_)
DefinitionsOf(n) ==
  IF n = 0 THEN {<<>>}
  ELSE {Append(d, [field |-> IndexFieldName(n), def |-> fieldDef]) :
          d \in DefinitionsOf(n - 1), fieldDef \in FieldDefs(n)}

\* The schema definitions of at most MaxFields fields.
Definitions == UNION {DefinitionsOf(n) : n \in 0..MaxFields}

NUMERIC == <<"N", "U", "M", "E", "R", "I", "C">>

TAG == <<"T", "A", "G">>

GEO == <<"G", "E", "O">>

TEXT == <<"T", "E", "X", "T">>

SEPARATOR == <<"S", "E", "P", "A", "R", "A", "T", "O", "R">>

AS == <<"A", "S">>

\* this.schema.definition[field]
definitionOf(field) ==
  LET i == CHOOSE i \in 1..Len(definition) : definition[i].field = field
  IN definition[i].def

\* fieldDef.alias ?? field
schemaFieldAlias(fieldDef, field) ==
  IF "alias" \in DOMAIN fieldDef THEN fieldDef.alias ELSE field

\* schemaEntry.push(...) when the test holds
pushIf(test, items) == IF test THEN items ELSE <<>>

buildHashSchemaEntry(field) ==
  LET fieldDef == definitionOf(field)
      fieldType == fieldDef.type
      fieldAlias == schemaFieldAlias(fieldDef, field)
  IN <<fieldAlias>>
       \o pushIf(fieldType = "date", <<NUMERIC>>)
       \o pushIf(fieldType = "boolean", <<TAG>>)
       \o pushIf(fieldType = "number", <<NUMERIC>>)
       \o pushIf(fieldType = "point", <<GEO>>)
       \o pushIf(fieldType = "string[]", <<TAG, SEPARATOR, Separator(fieldDef)>>)
       \o pushIf(fieldType = "string", <<TAG, SEPARATOR, Separator(fieldDef)>>)
       \o pushIf(fieldType = "text", <<TEXT>>)

\* `$.${fieldAlias}${fieldType === 'string[]' ? '[*]' : ''}`
fieldPath(fieldAlias, fieldType) ==
  <<"$", ".">> \o fieldAlias
    \o (IF fieldType = "string[]" THEN <<"[", "*", "]">> ELSE <<>>)

\* As buildJsonSchemaEntry, but a string[] entry carries the separator, as
\* it does in the flat encoding.
buildJsonSchemaEntryWithSeparator(field) ==
  LET fieldDef == definitionOf(field)
      fieldType == fieldDef.type
      fieldAlias == schemaFieldAlias(fieldDef, field)
  IN <<fieldPath(fieldAlias, fieldType), AS, fieldAlias>>
       \o pushIf(fieldType = "boolean", <<TAG>>)
       \o pushIf(fieldType = "number", <<NUMERIC>>)
       \o pushIf(fieldType = "point", <<GEO>>)
       \o pushIf(fieldType = "date", <<NUMERIC>>)
       \o pushIf(fieldType = "string[]", <<TAG, SEPARATOR, Separator(fieldDef)>>)
       \o pushIf(fieldType = "string", <<TAG, SEPARATOR, Separator(fieldDef)>>)
       \o pushIf(fieldType = "text", <<TEXT>>)

buildJsonSchemaEntry(field) ==
  LET fieldDef == definitionOf(field)
      fieldType == fieldDef.type
      fieldAlias == schemaFieldAlias(fieldDef, field)
  IN <<fieldPath(fieldAlias, fieldType), AS, fieldAlias>>
       \o pushIf(fieldType = "boolean", <<TAG>>)
       \o pushIf(fieldType = "number", <<NUMERIC>>)
       \o pushIf(fieldType = "point", <<GEO>>)
       \o pushIf(fieldType = "date", <<NUMERIC>>)
       \o pushIf(fieldType = "string[]", <<TAG>>)
       \o pushIf(fieldType = "string", <<TAG, SEPARATOR, Separator(fieldDef)>>)
       \o pushIf(fieldType = "text", <<TEXT>>)

\* for (let field in this.schema.definition) redisSchema.push(...entry),
\* from the i-th field on
RECURSIVE buildHashSchemaFrom(_)
buildHashSchemaFrom(i) ==
  IF i > Len(definition) THEN <<>>
  ELSE buildHashSchemaEntry(definition[i].field) \o buildHashSchemaFrom(i + 1)

buildHashSchema == buildHashSchemaFrom(1)

RECURSIVE buildJsonSchemaFrom(_)
buildJsonSchemaFrom(i) ==
  IF i > Len(definition) THEN <<>>
  ELSE buildJsonSchemaEntry(definition[i].field) \o buildJsonSchemaFrom(i + 1)

buildJsonSchema == buildJsonSchemaFrom(1)

\* get redisSchema()
getRedisSchema ==
  IF dataStructure = "JSON" THEN buildJsonSchema ELSE buildHashSchema

\* new SchemaBuilder(schema), for a schema of either data structure
IndexInit ==
  /\ definition \in Definitions
  /\ redisSchema = <<>>
  /\ indexPc = "schema"
  /\ dataStructure \in {"HASH", "JSON"}
  /\ rootWhere = Undefined /\ leaves = <<>> /\ calls = <<>>
  /\ ret = [kind |-> "none"]
  /\ ConvIdle /\ AccessIdle /\ PageIdle

\* let redisSchema = new SchemaBuilder(schema).redisSchema
Build ==
  /\ indexPc = "schema"
  /\ redisSchema' = getRedisSchema
  /\ indexPc' = "built"
  /\ UNCHANGED <<definition, convVars, searchVars, accessVars, pageVars>>

IndexNext == Build

IndexSpec == IndexInit /\ [][IndexNext]_vars

----------------------------------------------------------------------------
(* Properties of the index schema.                                         *)

SearchTypes == {NUMERIC, TAG, GEO, TEXT}

\* The length of the name part of a declaration: alias, or path AS alias.
NameLen == IF dataStructure = "HASH" THEN 1 ELSE 3

\* The alias that the declaration of the i-th field is to carry.
DeclaredAlias(i) ==
  IF "alias" \in DOMAIN definition[i].def
  THEN definition[i].def.alias ELSE definition[i].field

\* The name part of the i-th field's declaration is at position p.
NamePartAt(i, p) ==
  /\ p + NameLen - 1 <= Len(redisSchema)
  /\ redisSchema[p + NameLen - 1] = DeclaredAlias(i)
  /\ dataStructure = "JSON" => redisSchema[p + 1] = AS

\* The declarations of the fields start at the positions start[1], ... : they
\* are in declaration order, cover the whole index schema, and each has the
\* name part of its field and then a search type.
DeclarationsAt(start) ==
  LET n == Len(definition)
      end(i) == IF i < n THEN start[i + 1] - 1 ELSE Len(redisSchema)
  IN /\ n > 0 => start[1] = 1
     /\ n = 0 => redisSchema = <<>>
     /\ \A i \in 1..n :
          /\ NamePartAt(i, start[i])
          /\ start[i] + NameLen <= end(i)
          /\ redisSchema[start[i] + NameLen] \in SearchTypes
          /\ dataStructure = "JSON" =>
               \E each \in {<<>>, <<"[", "*", "]">>} :
                 redisSchema[start[i]] = <<"$", ".">> \o DeclaredAlias(i) \o each

\* C17: build emits exactly one declaration per schema field, in declaration
\* order, and every declaration carries a search type after its name part
\* ([alias, searchType, ...] flat, [path, AS, alias, searchType, ...]
\* structured), for each of the eight field types.
C17_DeclarationsCompleteOrdered ==
  indexPc = "built" =>
    \E start \in [1..Len(definition) -> 1..(Len(redisSchema) + 1)] :
      DeclarationsAt(start)

\* What holds of C17: a schema without object fields is declared whole.
DeclarationsCompleteWithoutObject ==
  (\A i \in 1..Len(definition) : definition[i].def.type # "object")
    => C17_DeclarationsCompleteOrdered

\* The declaration of the i-th field: from its name part up to the name part
\* of the next field.
HasDeclaration(i) == \E p \in 1..Len(redisSchema) : NamePartAt(i, p)

NamePos(i) == CHOOSE p \in 1..Len(redisSchema) : NamePartAt(i, p)

Declaration(i) ==
  SubSeq(redisSchema, NamePos(i),
         IF i < Len(definition) /\ HasDeclaration(i + 1)
         THEN NamePos(i + 1) - 1 ELSE Len(redisSchema))

\* The search type of a field type, the same in both encodings.
SearchTypeOf(type) ==
  CASE type \in {"number", "date"} -> NUMERIC
    [] type = "boolean" -> TAG
    [] type = "point" -> GEO
    [] type = "text" -> TEXT
    [] type \in {"string", "string[]"} -> TAG

\* The declaration that the i-th field is to have: the separator follows a
\* string in both encodings and a string array in the flat one only; the
\* path of a string array, and of no other field, ends in [*].
ExpectedDeclaration(i) ==
  LET def == definition[i].def
      separator == IF "separator" \in DOMAIN def THEN def.separator ELSE <<"|">>
      path == <<"$", ".">> \o DeclaredAlias(i)
                \o (IF def.type = "string[]" THEN <<"[", "*", "]">> ELSE <<>>)
      name == IF dataStructure = "HASH" THEN <<DeclaredAlias(i)>>
              ELSE <<path, AS, DeclaredAlias(i)>>
      options == IF \/ def.type = "string"
                    \/ def.type = "string[]" /\ dataStructure = "HASH"
                 THEN <<SEPARATOR, separator>> ELSE <<>>
  IN name \o <<SearchTypeOf(def.type)>> \o options

\* C18: number and date are declared NUMERIC, boolean TAG, point GEO, text
\* TEXT, string TAG with SEPARATOR and the configured or default separator,
\* string array TAG, in both encodings; the encodings differ for the string
\* array only, whose flat declaration carries SEPARATOR and the separator
\* and whose structured declaration carries none and has the path
\* $.alias[*], every other structured path being $.alias.
C18_SearchTypeMapping ==
  indexPc = "built" =>
    \A i \in 1..Len(definition) :
      definition[i].def.type # "object" =>
        HasDeclaration(i) /\ Declaration(i) = ExpectedDeclaration(i)

\* A structured index schema is built of a string array with a configured
\* separator and a string.
C18_Witness ==
  /\ indexPc = "built" /\ dataStructure = "JSON"
  /\ \E i \in 1..Len(definition) :
       /\ definition[i].def.type = "string[]"
       /\ "separator" \in DOMAIN definition[i].def
       /\ Declaration(i) = <<<<"$", ".">> \o DeclaredAlias(i) \o <<"[", "*", "]">>,
                             AS, DeclaredAlias(i), TAG>>
  /\ \E i \in 1..Len(definition) : definition[i].def.type = "string"

\* A flat index schema is built of a string array and a date.
C18_WitnessFlat ==
  /\ indexPc = "built" /\ dataStructure = "HASH"
  /\ \E i \in 1..Len(definition) :
       /\ definition[i].def.type = "string[]"
       /\ Declaration(i) = <<DeclaredAlias(i), TAG, SEPARATOR, <<"|">>>>
  /\ \E i \in 1..Len(definition) : definition[i].def.type = "date"

----------------------------------------------------------------------------
(* Search.all (AbstractSearch.all and page).  The backend holds a fixed    *)
(* ordered list of matches and answers a request for count entities from   *)
(* offset with the matches at the positions offset .. offset + count - 1.  *)
(* all awaits each page: between the request and its answer the call is    *)
(* suspended ("await").                                                     *)

\* How many matches the backend holds, at most.
MaxMatches == 6

\* The largest options.pageSize.
MaxPageSize == 3

Min(a, b) == IF a <= b THEN a ELSE b

\* The lists of matches: the entities 1 .. n in backend order.
MatchLists == {[i \in 1..n |-> i] : n \in 0..MaxMatches}

\* The backend's answer to this.callSearch(offset, count).
callSearch(off, count) ==
  SubSeq(matches, off + 1, Min(off + count, Len(matches)))

\* page(offset, count): the entities of the search results
page(off, count) == callSearch(off, count)

\* As lastPage, but a full page is taken for the last one too.
lastPageOrFull(foundEntities, size) == Len(foundEntities) <= size

\* if (foundEntities.length < pageSize) break
lastPage(foundEntities, size) == Len(foundEntities) < size

\* A Search on a backend that holds some matches.
PageInit ==
  /\ matches \in MatchLists
  /\ pageSize = 0 /\ offset = 0 /\ entities = <<>> /\ found = <<>>
  /\ allPc = "idle"
  /\ ConvIdle /\ SearchIdle /\ AccessIdle /\ IndexIdle

\* all({ pageSize: size }), up to the loop
All(size) ==
  /\ allPc = "idle"
  /\ entities' = <<>>
  /\ offset' = 0
  /\ pageSize' = size
  /\ allPc' = "loop"
  /\ UNCHANGED <<matches, found>>
  /\ UNCHANGED <<convVars, searchVars, accessVars, indexVars>>

\* await this.page(offset, pageSize): the request is made
CallPage ==
  /\ allPc = "loop"
  /\ allPc' = "await"
  /\ UNCHANGED <<matches, pageSize, offset, entities, found>>
  /\ UNCHANGED <<convVars, searchVars, accessVars, indexVars>>

\* The page is returned: the rest of the loop body, and the return after
\* the break.
PageReturns ==
  /\ allPc = "await"
  /\ found' = page(offset, pageSize)
  /\ entities' = entities \o found'
  /\ IF lastPage(found', pageSize)
     THEN offset' = offset /\ allPc' = "done"
     ELSE offset' = offset + pageSize /\ allPc' = "loop"
  /\ UNCHANGED <<matches, pageSize>>
  /\ UNCHANGED <<convVars, searchVars, accessVars, indexVars>>

PageNext ==
  \/ \E size \in 0..MaxPageSize : All(size)
  \/ CallPage
  \/ PageReturns

\* The backend answers every request, and the event loop resumes all when
\* the page has arrived.
PageSpec ==
  PageInit /\ [][PageNext]_vars /\ WF_vars(CallPage) /\ WF_vars(PageReturns)

\* What all returns when it returns, and what it requests: exactly the
\* matches, each once, in backend order; the requested offset is the number
\* of entities gathered, a multiple of the page size; all stops at the first
\* page shorter than the page size, and at no other.
AllPagesInOrder ==
  /\ [](allPc = "done" => entities = matches /\ Len(found) < pageSize)
  /\ [][allPc' = "await" =>
          /\ offset' = Len(entities')
          /\ entities' = SubSeq(matches, 1, offset')
          /\ \E k \in 0..MaxMatches : offset' = k * pageSize']_vars
  /\ [][allPc = "await" /\ allPc' # "await" =>
          (allPc' = "done" <=> Len(found') < pageSize)]_vars

----------------------------------------------------------------------------
(* The leaves of the tree and their operands.                              *)

\* The leaves that are reachable from a node of the tree, by identity.
RECURSIVE LeafIds(_)
LeafIds(where) ==
  CASE where.node = "undefined" -> {}
    [] where.node = "leaf" -> {where.id}
    [] OTHER -> LeafIds(where.left) \cup LeafIds(where.right)

\* The root changes only by being wrapped as the left child of a new
\* combinator node.
RootOnlyWrapped ==
  [][rootWhere' # rootWhere =>
       \/ IsUndefined(rootWhere)
       \/ /\ rootWhere'.node \in {"WhereAnd", "WhereOr"}
          /\ rootWhere'.left = rootWhere]_vars

\* C21: in every reachable builder state every leaf reachable from the root
\* has been given its operand, and a node once placed in the tree is never
\* changed afterwards: a later where, and or or call only wraps the previous
\* root as the left child of a new combinator node.
C21_OnlyFinalizedNodesInTree ==
  /\ [](\A id \in LeafIds(rootWhere) : leaves[id].operand # "pending")
  /\ [][\A id \in LeafIds(rootWhere) : leaves'[id] = leaves[id]]_vars
  /\ RootOnlyWrapped

====
